---- MODULE Spec2Model ----
(***************************************************************************)
(* A model of the YouTube audio download service of src/main.py: the       *)
(* request pacer around last_request_time, the retry loop of               *)
(* download_youtube_audio with its exception handlers, the files the       *)
(* external tool leaves in the downloads directory, and cleanup_file.      *)
(*                                                                         *)
(* Handlers are asyncio coroutines on one event loop: a handler runs       *)
(* without interruption from one await to the next, so every action below  *)
(* is one such segment.  subprocess.run is a synchronous call: from its    *)
(* start to its return the event loop is held by the calling handler.      *)
(*                                                                         *)
(* Texts (diagnostics, details, command arguments, file suffixes) are      *)
(* sequences of one-character strings, so that lower() and the substring   *)
(* test "kw in text" are computed as Python computes them.                 *)
(***************************************************************************)
EXTENDS Integers, Sequences, FiniteSets, TLC

----------------------------------------------------------------------------
(* Program constants.                                                      *)

MIN_REQUEST_INTERVAL == 5

\* variant: a retry loop of one more attempt
max_attempts_plus_one == 3 + 1

max_attempts == 3

\* timeout=300 of subprocess.run
TIMEOUT == 300

----------------------------------------------------------------------------
(* Bounds of the model.                                                    *)

\* Number of /download requests the clients send.
NumRequests == 3

\* Longest run of the external tool, in seconds, that is not a timeout.
MaxToolTime == 1

\* time.time() when the service starts: later than MIN_REQUEST_INTERVAL
\* after the epoch that last_request_time = 0 stands for.
StartTime == MIN_REQUEST_INTERVAL + 1

Requests == 1..NumRequests

----------------------------------------------------------------------------
(* Text helpers: str.lower(), the "in" substring test, concatenation.      *)

UpperAlphabet ==
    <<"A","B","C","D","E","F","G","H","I","J","K","L","M",
      "N","O","P","Q","R","S","T","U","V","W","X","Y","Z">>

LowerAlphabet ==
    <<"a","b","c","d","e","f","g","h","i","j","k","l","m",
      "n","o","p","q","r","s","t","u","v","w","x","y","z">>

\* the lower-case letter of each upper-case letter
ToLower ==
    [c \in {UpperAlphabet[i] : i \in 1..26} |->
        LowerAlphabet[CHOOSE i \in 1..26 : UpperAlphabet[i] = c]]

LowerChar(c) == IF c \in DOMAIN ToLower THEN ToLower[c] ELSE c

RECURSIVE Lower(_)
\* text.lower()
Lower(text) ==
    IF Len(text) = 0 THEN <<>>
    ELSE IF Len(text) = 1 THEN <<LowerChar(text[1])>>
    ELSE LET half == Len(text) \div 2
         IN  Lower(SubSeq(text, 1, half)) \o Lower(SubSeq(text, half + 1, Len(text)))

\* kw in text
Contains(text, kw) ==
    \E i \in 0..(Len(text) - Len(kw)) :
        \A j \in 1..Len(kw) : text[i + j] = kw[j]

RECURSIVE Concat(_)
\* "".join(parts)
Concat(parts) ==
    IF parts = <<>> THEN <<>> ELSE Head(parts) \o Concat(Tail(parts))

RECURSIVE JoinQuoted(_, _, _)
\* ", ".join(repr(a) for a in args)
JoinQuoted(args, quote, sep) ==
    IF args = <<>> THEN <<>>
    ELSE quote \o Head(args) \o quote
         \o (IF Tail(args) = <<>> THEN <<>> ELSE sep \o JoinQuoted(Tail(args), quote, sep))

\* str(n) for the one-digit numbers the program formats
Digit(n) == <<"0","1","2","3","4","5","6","7","8","9">>[n + 1]

----------------------------------------------------------------------------
(* The keywords of the failure checks (main.py lines 206, 213, 227).       *)

\* "ffmpeg"
KwFfmpeg ==
    <<"f","f","m","p","e","g">>

\* "ffprobe"
KwFfprobe ==
    <<"f","f","p","r","o","b","e">>

\* "bot"
KwBot ==
    <<"b","o","t">>

\* "429"
Kw429 ==
    <<"4","2","9">>

\* "too many requests"
KwTooManyRequests ==
    <<"t","o","o"," ","m","a","n","y"," ","r","e","q","u","e","s","t","s">>

\* "precondition check failed"
KwPreconditionCheckFailed ==
    <<"p","r","e","c","o","n","d","i","t","i","o","n"," ","c","h","e","c","k"," ","f","a","i",
     "l","e","d">>

\* "sign in to confirm"
KwSignInToConfirm ==
    <<"s","i","g","n"," ","i","n"," ","t","o"," ","c","o","n","f","i","r","m">>

\* "ssl"
KwSsl ==
    <<"s","s","l">>

\* "certificate"
KwCertificate ==
    <<"c","e","r","t","i","f","i","c","a","t","e">>

BotKeywords ==
    {KwBot, Kw429, KwTooManyRequests, KwPreconditionCheckFailed, KwSignInToConfirm}

----------------------------------------------------------------------------
(* The detail messages of the HTTP errors.                                 *)

\* "Download timeout - video may be too long"
TimeoutDetail ==
    <<"D","o","w","n","l","o","a","d"," ","t","i","m","e","o","u","t"," ","-"," ","v","i","d",
     "e","o"," ","m","a","y"," ","b","e"," ","t","o","o"," ","l","o","n","g">>

\* "Audio conversion failed. Please install ffmpeg: https://ffmpeg.org/download.html"
FfmpegDetail ==
    <<"A","u","d","i","o"," ","c","o","n","v","e","r","s","i","o","n"," ","f","a","i","l","e",
     "d","."," ","P","l","e","a","s","e"," ","i","n","s","t","a","l","l"," ","f","f","m","p",
     "e","g",":"," ","h","t","t","p","s",":","/","/","f","f","m","p","e","g",".","o","r","g",
     "/","d","o","w","n","l","o","a","d",".","h","t","m","l">>

\* "YouTube is blocking automated requests. Please try again later or use a different video."
BotDetail ==
    <<"Y","o","u","T","u","b","e"," ","i","s"," ","b","l","o","c","k","i","n","g"," ","a","u",
     "t","o","m","a","t","e","d"," ","r","e","q","u","e","s","t","s","."," ","P","l","e","a",
     "s","e"," ","t","r","y"," ","a","g","a","i","n"," ","l","a","t","e","r"," ","o","r"," ",
     "u","s","e"," ","a"," ","d","i","f","f","e","r","e","n","t"," ","v","i","d","e","o",".">>

\* "SSL certificate verification failed. Please try again later."
SslDetail ==
    <<"S","S","L"," ","c","e","r","t","i","f","i","c","a","t","e"," ","v","e","r","i","f","i",
     "c","a","t","i","o","n"," ","f","a","i","l","e","d","."," ","P","l","e","a","s","e"," ",
     "t","r","y"," ","a","g","a","i","n"," ","l","a","t","e","r",".">>

\* "Audio file not found after download"
NotFoundDetail ==
    <<"A","u","d","i","o"," ","f","i","l","e"," ","n","o","t"," ","f","o","u","n","d"," ","a",
     "f","t","e","r"," ","d","o","w","n","l","o","a","d">>

\* "Failed to download audio after "
FailedPrefix ==
    <<"F","a","i","l","e","d"," ","t","o"," ","d","o","w","n","l","o","a","d"," ","a","u","d",
     "i","o"," ","a","f","t","e","r"," ">>

\* " attempts: "
FailedInfix ==
    <<" ","a","t","t","e","m","p","t","s",":"," ">>

\* "Unexpected error: "
UnexpectedPrefix ==
    <<"U","n","e","x","p","e","c","t","e","d"," ","e","r","r","o","r",":"," ">>

----------------------------------------------------------------------------
(* The command line of the external tool, and the texts it appears in.     *)

\* "yt-dlp"
ArgYtDlp ==
    <<"y","t","-","d","l","p">>

\* "--user-agent"
ArgUserAgent ==
    <<"-","-","u","s","e","r","-","a","g","e","n","t">>

\* "--no-check-certificate"
ArgNoCheckCertificate ==
    <<"-","-","n","o","-","c","h","e","c","k","-","c","e","r","t","i","f","i","c","a","t","e">>

\* "--prefer-insecure"
ArgPreferInsecure ==
    <<"-","-","p","r","e","f","e","r","-","i","n","s","e","c","u","r","e">>

\* "--no-ssl-verify"
ArgNoSslVerify ==
    <<"-","-","n","o","-","s","s","l","-","v","e","r","i","f","y">>

\* "--extractor-args"
ArgExtractorArgs ==
    <<"-","-","e","x","t","r","a","c","t","o","r","-","a","r","g","s">>

\* "youtube:player_client=android"
ClientAndroid ==
    <<"y","o","u","t","u","b","e",":","p","l","a","y","e","r","_","c","l","i","e","n","t","=",
     "a","n","d","r","o","i","d">>

\* "youtube:player_client=web"
ClientWeb ==
    <<"y","o","u","t","u","b","e",":","p","l","a","y","e","r","_","c","l","i","e","n","t","=",
     "w","e","b">>

\* "youtube:player_client=web;player_skip=webpage"
ClientWebSkip ==
    <<"y","o","u","t","u","b","e",":","p","l","a","y","e","r","_","c","l","i","e","n","t","=",
     "w","e","b",";","p","l","a","y","e","r","_","s","k","i","p","=","w","e","b","p","a","g",
     "e">>

\* "Mozilla/5.0 (Windows NT 10.0; Win64; x64) AppleWebKit/537.36 (KHTML, like Gecko) Chrome/120.0.0.0 Safari/537.36"
UA0 ==
    <<"M","o","z","i","l","l","a","/","5",".","0"," ","(","W","i","n","d","o","w","s"," ","N",
     "T"," ","1","0",".","0",";"," ","W","i","n","6","4",";"," ","x","6","4",")"," ","A","p",
     "p","l","e","W","e","b","K","i","t","/","5","3","7",".","3","6"," ","(","K","H","T","M",
     "L",","," ","l","i","k","e"," ","G","e","c","k","o",")"," ","C","h","r","o","m","e","/",
     "1","2","0",".","0",".","0",".","0"," ","S","a","f","a","r","i","/","5","3","7",".","3",
     "6">>

\* "Mozilla/5.0 (Macintosh; Intel Mac OS X 10_15_7) AppleWebKit/537.36 (KHTML, like Gecko) Chrome/120.0.0.0 Safari/537.36"
UA1 ==
    <<"M","o","z","i","l","l","a","/","5",".","0"," ","(","M","a","c","i","n","t","o","s","h",
     ";"," ","I","n","t","e","l"," ","M","a","c"," ","O","S"," ","X"," ","1","0","_","1","5",
     "_","7",")"," ","A","p","p","l","e","W","e","b","K","i","t","/","5","3","7",".","3","6",
     " ","(","K","H","T","M","L",","," ","l","i","k","e"," ","G","e","c","k","o",")"," ","C",
     "h","r","o","m","e","/","1","2","0",".","0",".","0",".","0"," ","S","a","f","a","r","i",
     "/","5","3","7",".","3","6">>

\* "Mozilla/5.0 (X11; Linux x86_64) AppleWebKit/537.36 (KHTML, like Gecko) Chrome/120.0.0.0 Safari/537.36"
UA2 ==
    <<"M","o","z","i","l","l","a","/","5",".","0"," ","(","X","1","1",";"," ","L","i","n","u",
     "x"," ","x","8","6","_","6","4",")"," ","A","p","p","l","e","W","e","b","K","i","t","/",
     "5","3","7",".","3","6"," ","(","K","H","T","M","L",","," ","l","i","k","e"," ","G","e",
     "c","k","o",")"," ","C","h","r","o","m","e","/","1","2","0",".","0",".","0",".","0"," ",
     "S","a","f","a","r","i","/","5","3","7",".","3","6">>

\* "Mozilla/5.0 (Windows NT 10.0; Win64; x64; rv:109.0) Gecko/20100101 Firefox/121.0"
UA3 ==
    <<"M","o","z","i","l","l","a","/","5",".","0"," ","(","W","i","n","d","o","w","s"," ","N",
     "T"," ","1","0",".","0",";"," ","W","i","n","6","4",";"," ","x","6","4",";"," ","r","v",
     ":","1","0","9",".","0",")"," ","G","e","c","k","o","/","2","0","1","0","0","1","0","1",
     " ","F","i","r","e","f","o","x","/","1","2","1",".","0">>

\* "Command '["
CmdOpen ==
    <<"C","o","m","m","a","n","d"," ","'","[">>

\* "]' returned non-zero exit status 1."
CmdClose ==
    <<"]","'"," ","r","e","t","u","r","n","e","d"," ","n","o","n","-","z","e","r","o"," ","e",
     "x","i","t"," ","s","t","a","t","u","s"," ","1",".">>

\* ", "
CmdSep ==
    <<","," ">>

\* "'"
Quote ==
    <<"'">>

\* "https://youtu.be/dQw4"
UrlPlain ==
    <<"h","t","t","p","s",":","/","/","y","o","u","t","u",".","b","e","/","d","Q","w","4">>

\* "https://youtu.be/robot429"
UrlRobot ==
    <<"h","t","t","p","s",":","/","/","y","o","u","t","u",".","b","e","/","r","o","b","o","t",
     "4","2","9">>

----------------------------------------------------------------------------
(* What the external tool and the operating system may report, and the     *)
(* file suffixes and media types.                                          *)

\* "ERROR: ffmpeg not found"
ErrFfmpeg ==
    <<"E","R","R","O","R",":"," ","f","f","m","p","e","g"," ","n","o","t"," ","f","o","u","n",
     "d">>

\* "FFprobe missing"
ErrFfprobe ==
    <<"F","F","p","r","o","b","e"," ","m","i","s","s","i","n","g">>

\* "Sign in to confirm you're not a bot"
ErrSignIn ==
    <<"S","i","g","n"," ","i","n"," ","t","o"," ","c","o","n","f","i","r","m"," ","y","o","u",
     "'","r","e"," ","n","o","t"," ","a"," ","b","o","t">>

\* "HTTP Error 429: Too Many Requests"
Err429 ==
    <<"H","T","T","P"," ","E","r","r","o","r"," ","4","2","9",":"," ","T","o","o"," ","M","a",
     "n","y"," ","R","e","q","u","e","s","t","s">>

\* "Precondition check failed"
ErrPrecondition ==
    <<"P","r","e","c","o","n","d","i","t","i","o","n"," ","c","h","e","c","k"," ","f","a","i",
     "l","e","d">>

\* "SSL: CERTIFICATE_VERIFY_FAILED"
ErrSsl ==
    <<"S","S","L",":"," ","C","E","R","T","I","F","I","C","A","T","E","_","V","E","R","I","F",
     "Y","_","F","A","I","L","E","D">>

\* "Bot check hit an SSL error"
ErrBotSsl ==
    <<"B","o","t"," ","c","h","e","c","k"," ","h","i","t"," ","a","n"," ","S","S","L"," ","e",
     "r","r","o","r">>

\* "ffmpeg blocked by bot"
ErrFfmpegBot ==
    <<"f","f","m","p","e","g"," ","b","l","o","c","k","e","d"," ","b","y"," ","b","o","t">>

\* "Video unavailable"
ErrUnavailable ==
    <<"V","i","d","e","o"," ","u","n","a","v","a","i","l","a","b","l","e">>

\* "[Errno 2] No such file or directory: 'yt-dlp'"
ErrNoTool ==
    <<"[","E","r","r","n","o"," ","2","]"," ","N","o"," ","s","u","c","h"," ","f","i","l","e",
     " ","o","r"," ","d","i","r","e","c","t","o","r","y",":"," ","'","y","t","-","d","l","p",
     "'">>

\* "500: Audio file not found after download"
StrNotFound ==
    <<"5","0","0",":"," ","A","u","d","i","o"," ","f","i","l","e"," ","n","o","t"," ","f","o",
     "u","n","d"," ","a","f","t","e","r"," ","d","o","w","n","l","o","a","d">>

\* ".M4A"
ExtM4aUpper ==
    <<".","M","4","A">>

\* ".webm.part"
ExtPart ==
    <<".","w","e","b","m",".","p","a","r","t">>

\* ".m4a"
DotM4a ==
    <<".","m","4","a">>

\* ".webm"
DotWebm ==
    <<".","w","e","b","m">>

\* ".opus"
DotOpus ==
    <<".","o","p","u","s">>

\* ".mp3"
DotMp3 ==
    <<".","m","p","3">>

\* ".wav"
DotWav ==
    <<".","w","a","v">>

\* "audio/mp4"
AudioMp4 ==
    <<"a","u","d","i","o","/","m","p","4">>

\* "audio/webm"
AudioWebm ==
    <<"a","u","d","i","o","/","w","e","b","m">>

\* "audio/opus"
AudioOpus ==
    <<"a","u","d","i","o","/","o","p","u","s">>

\* "audio/mpeg"
AudioMpeg ==
    <<"a","u","d","i","o","/","m","p","e","g">>

\* "audio/wav"
AudioWav ==
    <<"a","u","d","i","o","/","w","a","v">>

----------------------------------------------------------------------------
(* get_yt_dlp_command.  The command is the list of its arguments.  Kept    *)
(* are the arguments that depend on the attempt or on the request, and the *)
(* fixed ones whose text holds a keyword of the failure checks; the other  *)
(* fixed arguments (format, headers, sleep and retry hints) hold none.     *)

user_agents == <<UA0, UA1, UA2, UA3>>

\* variant: the rotation entered at its first entry on attempt 1
UserAgent_FromFirst(attempt) == user_agents[((attempt - 1) % Len(user_agents)) + 1]

\* user_agents[attempt % len(user_agents)], a Python list indexed from 0
UserAgent(attempt) == user_agents[(attempt % Len(user_agents)) + 1]

\* the --extractor-args value of the attempt (lines 101-106)
PlayerClient(attempt) ==
    IF attempt = 1 THEN ClientAndroid
    ELSE IF attempt = 2 THEN ClientWeb
    ELSE ClientWebSkip

get_yt_dlp_command(video_url, attempt) ==
    <<ArgYtDlp, ArgUserAgent, UserAgent(attempt),
      ArgNoCheckCertificate, ArgPreferInsecure, ArgNoSslVerify,
      ArgExtractorArgs, PlayerClient(attempt), video_url>>

\* str(e) of a CalledProcessError:
\* "Command '[...]' returned non-zero exit status 1."
StrCalledProcessError(cmd) ==
    CmdOpen \o JoinQuoted(cmd, Quote, CmdSep) \o CmdClose

\* the URLs clients ask for
Urls == {UrlPlain, UrlRobot}

\* error_msg = e.stderr if e.stderr else str(e)   (line 202)
ErrorMsg(stderr, cmd) ==
    IF stderr # <<>> THEN stderr ELSE StrCalledProcessError(cmd)

----------------------------------------------------------------------------
(* What one pass through the try statement of the retry loop does next.    *)
(* act is "return" (the FileResponse), "raise" (an HTTPException leaves    *)
(* the handler), "sleep" (await asyncio.sleep, then continue) or           *)
(* "continue".                                                             *)

NoText == <<>>

Raise(status_code, detail) ==
    [act |-> "raise", status |-> status_code, detail |-> detail, lo |-> 0, hi |-> 0]

\* await asyncio.sleep(random.uniform(lo, hi)); continue
SleepThenContinue(lo, hi) ==
    [act |-> "sleep", status |-> 0, detail |-> NoText, lo |-> lo, hi |-> hi]

Continue ==
    [act |-> "continue", status |-> 0, detail |-> NoText, lo |-> 0, hi |-> 0]

Return ==
    [act |-> "return", status |-> 200, detail |-> NoText, lo |-> 0, hi |-> 0]

\* variant: the last timeout answered with 500
HandleTimeoutExpired_500(attempt) ==
    IF attempt = max_attempts
    THEN Raise(500, TimeoutDetail)
    ELSE Continue

\* variant: a timeout ends the request on any attempt
HandleTimeoutExpired_NoRetry(attempt) ==
    Raise(408, TimeoutDetail)

\* except subprocess.TimeoutExpired   (lines 195-199)
HandleTimeoutExpired(attempt) ==
    IF attempt = max_attempts
    THEN Raise(408, TimeoutDetail)
    ELSE Continue

\* "ffmpeg" in error_msg.lower() or "ffprobe" in error_msg.lower();
\* lowered is error_msg.lower()
IsFfmpegError(lowered) ==
    Contains(lowered, KwFfmpeg) \/ Contains(lowered, KwFfprobe)

\* any(keyword in error_msg.lower() for keyword in [...])
IsBotError(lowered) ==
    \E keyword \in BotKeywords : Contains(lowered, keyword)

\* "ssl" in error_msg.lower() or "certificate" in error_msg.lower()
IsSslError(lowered) ==
    Contains(lowered, KwSsl) \/ Contains(lowered, KwCertificate)

\* f"Failed to download audio after {max_attempts} attempts: {error_msg}"
GenericDetail(error_msg) ==
    FailedPrefix \o <<Digit(max_attempts)>> \o FailedInfix \o error_msg

\* variant: a failure of no special kind is retried on every attempt
HandleCalledProcessError_NeverGivesUp(error_msg, attempt) ==
    LET lowered == Lower(error_msg) IN
    IF IsFfmpegError(lowered)
    THEN Raise(500, FfmpegDetail)
    ELSE IF IsBotError(lowered)
    THEN (IF attempt < max_attempts
          THEN SleepThenContinue(10, 20)
          ELSE Raise(429, BotDetail))
    ELSE IF IsSslError(lowered)
    THEN (IF attempt < max_attempts
          THEN Continue
          ELSE Raise(500, SslDetail))
    ELSE SleepThenContinue(2, 5)

\* variant: the keywords looked for in error_msg as it is, not lowered
HandleCalledProcessError_CaseSensitive(error_msg, attempt) ==
    LET lowered == error_msg IN
    IF IsFfmpegError(lowered)
    THEN Raise(500, FfmpegDetail)
    ELSE IF IsBotError(lowered)
    THEN (IF attempt < max_attempts
          THEN SleepThenContinue(10, 20)
          ELSE Raise(429, BotDetail))
    ELSE IF IsSslError(lowered)
    THEN (IF attempt < max_attempts
          THEN Continue
          ELSE Raise(500, SslDetail))
    ELSE IF attempt < max_attempts
    THEN SleepThenContinue(2, 5)
    ELSE Raise(500, GenericDetail(error_msg))

\* variant: the SSL keywords looked for before the bot keywords
HandleCalledProcessError_SslFirst(error_msg, attempt) ==
    LET lowered == Lower(error_msg) IN
    IF IsFfmpegError(lowered)
    THEN Raise(500, FfmpegDetail)
    ELSE IF IsSslError(lowered)
    THEN (IF attempt < max_attempts
          THEN Continue
          ELSE Raise(500, SslDetail))
    ELSE IF IsBotError(lowered)
    THEN (IF attempt < max_attempts
          THEN SleepThenContinue(10, 20)
          ELSE Raise(429, BotDetail))
    ELSE IF attempt < max_attempts
    THEN SleepThenContinue(2, 5)
    ELSE Raise(500, GenericDetail(error_msg))

\* except subprocess.CalledProcessError   (lines 201-245)
HandleCalledProcessError(error_msg, attempt) ==
    LET lowered == Lower(error_msg) IN
    IF IsFfmpegError(lowered)
    THEN Raise(500, FfmpegDetail)
    ELSE IF IsBotError(lowered)
    THEN (IF attempt < max_attempts
          THEN SleepThenContinue(10, 20)
          ELSE Raise(429, BotDetail))
    ELSE IF IsSslError(lowered)
    THEN (IF attempt < max_attempts
          THEN Continue
          ELSE Raise(500, SslDetail))
    ELSE IF attempt < max_attempts
    THEN SleepThenContinue(2, 5)
    ELSE Raise(500, GenericDetail(error_msg))

\* variant: an unexpected exception ends the request on any attempt
HandleException_NoRetry(text, attempt) ==
    Raise(500, UnexpectedPrefix \o text)

\* variant: an unexpected exception is passed over on every attempt
HandleException_Swallow(text, attempt) ==
    Continue

\* except Exception   (lines 247-254); text is str(e)
HandleException(text, attempt) ==
    IF attempt = max_attempts
    THEN Raise(500, UnexpectedPrefix \o text)
    ELSE Continue

----------------------------------------------------------------------------
(* The state of the service.                                               *)

VARIABLES
    now,                \* time.time(), in seconds
    last_request_time,  \* the module global of line 35
    running,            \* the handler inside subprocess.run, holding the event loop
    pc,                 \* where each request's handler stands
    video_url,          \* str(request.url)
    attempt,            \* the loop variable of the retry loop
    wake,               \* when the handler's asyncio.sleep is due
    files,              \* suffixes of the files downloads/<file_id>.* on disk
    file_path,          \* downloaded_files[0], the file handed to FileResponse
    response,           \* what the handler gave the framework
    cleanup,            \* how the background cleanup_file call ended
    invocations,        \* subprocess.run calls made for the request
    failures,           \* attempts, of all requests, that have failed
    hist,               \* the kind of each finished attempt
    error_msg,          \* the text the last finished attempt's handler saw
    pauses,             \* ranges of the sleeps since the last tool run
    seen_last,          \* last_request_time as the request read it on entry
    cmd,                \* the command of the attempt (line 148)
    attempt_end         \* time.time() when the attempt being retried ended

vars ==
    <<now, last_request_time, running, pc, video_url, attempt, wake, files,
      file_path, response, cleanup, invocations, failures, hist, error_msg, pauses,
      seen_last, cmd, attempt_end>>

\* random.uniform(lo, hi): the two ends of the range
Uniform(lo, hi) == {lo, hi}

\* suffixes after downloads/<file_id> of the files the tool may leave
Suffixes == {ExtM4aUpper, ExtPart}

\* stderr of a run that exits non-zero; <<>> is an empty stderr
StderrTexts ==
    {NoText, ErrFfmpeg, ErrFfprobe, ErrSignIn, Err429, ErrPrecondition,
     ErrSsl, ErrBotSsl, ErrFfmpegBot, ErrUnavailable}

\* How a run of subprocess.run may end: exit status 0 ("ok"), the 300 s
\* timeout ("timeout"), a non-zero exit with its stderr ("error",
\* CalledProcessError) or an exception of the call itself with its str(e)
\* ("oserror").
ToolResult(kind, text) == [kind |-> kind, text |-> text]

ToolResults ==
    {ToolResult("ok", NoText), ToolResult("timeout", NoText),
     ToolResult("oserror", ErrNoTool)}
    \cup {ToolResult("error", t) : t \in StderrTexts}

\* The files a run may leave, among those with the given suffixes: a run
\* that exits with status 0 any, a run that fails at most a partial file.
ToolWrites(kind, suffixes) ==
    IF kind = "ok" THEN SUBSET suffixes ELSE SUBSET (suffixes \cap {ExtPart})

\* The seconds a run may take: a timeout comes after 300 s, any other end
\* after one of the given times.
ToolTimes(kind, times) ==
    IF kind = "timeout" THEN {TIMEOUT} ELSE times

NoResponse ==
    [kind |-> "pending", status |-> 0, detail |-> NoText, media_type |-> NoText]

\* the handler ran off the end of the loop: Python returns None
ReturnedNone ==
    [kind |-> "none", status |-> 200, detail |-> NoText, media_type |-> NoText]

ErrorResponse(status_code, detail) ==
    [kind |-> "error", status |-> status_code, detail |-> detail, media_type |-> NoText]

RECURSIVE LastDot(_)
\* start of the extension os.path.splitext finds: the last "." of the name
LastDot(name) ==
    IF name = <<>> THEN 0
    ELSE IF name[Len(name)] = "." THEN Len(name)
    ELSE LastDot(SubSeq(name, 1, Len(name) - 1))

\* os.path.splitext(file_path)[1]
SplitExt(name) ==
    IF LastDot(name) = 0 THEN <<>> ELSE SubSeq(name, LastDot(name), Len(name))

\* variant: the extension looked up as it is, not lowered
MediaType_CaseSensitive(name) ==
    LET file_ext == SplitExt(name) IN
    IF file_ext = DotM4a THEN AudioMp4
    ELSE IF file_ext = DotWebm THEN AudioWebm
    ELSE IF file_ext = DotOpus THEN AudioOpus
    ELSE IF file_ext = DotMp3 THEN AudioMpeg
    ELSE IF file_ext = DotWav THEN AudioWav
    ELSE AudioMpeg

\* media_types.get(file_ext, 'audio/mpeg')   (lines 177-185)
MediaType(name) ==
    LET file_ext == Lower(SplitExt(name)) IN
    IF file_ext = DotM4a THEN AudioMp4
    ELSE IF file_ext = DotWebm THEN AudioWebm
    ELSE IF file_ext = DotOpus THEN AudioOpus
    ELSE IF file_ext = DotMp3 THEN AudioMpeg
    ELSE IF file_ext = DotWav THEN AudioWav
    ELSE AudioMpeg

FileResponse(name) ==
    [kind |-> "file", status |-> 200, detail |-> NoText, media_type |-> MediaType(name)]

\* The try statement of one loop iteration once subprocess.run has ended
\* (lines 156-254): found is whether glob matched a file.
\* text is error_msg for a CalledProcessError and str(e) for an exception
\* of the call itself.
TryStep(kind, text, found, n) ==
    IF kind = "ok"
    THEN (IF found THEN Return
          \* the HTTPException of line 169 is caught by "except Exception"
          ELSE HandleException(StrNotFound, n))
    ELSE IF kind = "timeout" THEN HandleTimeoutExpired(n)
    ELSE IF kind = "error" THEN HandleCalledProcessError(text, n)
    ELSE HandleException(text, n)

\* The part of a handler's state one segment of it decides.
Local(p, n, w, pz, resp, path) ==
    [pc |-> p, attempt |-> n, wake |-> w, pauses |-> pz, response |-> resp,
     file_path |-> path]

\* for attempt in range(1, max_attempts + 1): is there a next value after n
RangeHasNext(n) == n + 1 < max_attempts + 1

\* The top of the loop body for attempt n at time t (lines 138-163): the
\* delay before a retry, or straight into subprocess.run.
IterationStart(n, t, pz) ==
    IF n > 1
    THEN {Local("delay_sleep", n, t + delay, Append(pz, <<3, 8>>), NoResponse, NoText) :
            delay \in Uniform(3, 8)}
    ELSE {Local("invoke", n, 0, pz, NoResponse, NoText)}

\* continue: the next iteration, or the end of the loop and of the function
LoopNext(n, t, pz) ==
    IF RangeHasNext(n)
    THEN IterationStart(n + 1, t, pz)
    ELSE {Local("done", n, 0, pz, ReturnedNone, NoText)}

\* Where the handler stands after the try statement of attempt n chose step.
AfterTry(step, n, t, fs) ==
    IF step.act = "return"
    THEN {Local("responding", n, 0, <<>>, FileResponse(f), f) : f \in fs}
    ELSE IF step.act = "raise"
    THEN {Local("done", n, 0, <<>>, ErrorResponse(step.status, step.detail), NoText)}
    ELSE IF step.act = "sleep"
    THEN {Local("backoff_sleep", n, t + w, <<<<step.lo, step.hi>>>>, NoResponse, NoText) :
            w \in Uniform(step.lo, step.hi)}
    ELSE LoopNext(n, t, <<>>)

----------------------------------------------------------------------------
(* Initial state and actions.                                              *)

\* The service has just started; present are the requests clients will send.
InitWith(present, earlier) ==
    /\ now = StartTime
    /\ last_request_time \in earlier
    /\ running = {}
    /\ pc = [r \in Requests |-> IF r \in present THEN "idle" ELSE "absent"]
    /\ video_url = [r \in Requests |-> NoText]
    /\ attempt = [r \in Requests |-> 0]
    /\ wake = [r \in Requests |-> 0]
    /\ files = [r \in Requests |-> {}]
    /\ file_path = [r \in Requests |-> NoText]
    /\ response = [r \in Requests |-> NoResponse]
    /\ cleanup = [r \in Requests |-> "none"]
    /\ invocations = [r \in Requests |-> 0]
    /\ failures = 0
    /\ hist = [r \in Requests |-> <<>>]
    /\ error_msg = [r \in Requests |-> NoText]
    /\ pauses = [r \in Requests |-> <<>>]
    /\ seen_last = [r \in Requests |-> 0]
    /\ cmd = [r \in Requests |-> <<>>]
    /\ attempt_end = [r \in Requests |-> 0]

\* The kind the ordered rule list gives a diagnostic: a timeout first, then
\* the conversion tool, bot detection, SSL, generic.  hist records it beside
\* what the handlers do, for the properties to compare the two.
classify(rawMessage, wasTimeout) ==
    LET lowered == Lower(rawMessage)
        has(kws) == \E kw \in kws : Contains(lowered, kw)
    IN
    IF wasTimeout THEN "Timeout"
    ELSE IF has({KwFfmpeg, KwFfprobe}) THEN "ConversionToolMissing"
    ELSE IF has({KwBot, Kw429, KwTooManyRequests, KwPreconditionCheckFailed,
                 KwSignInToConfirm}) THEN "BotDetection"
    ELSE IF has({KwSsl, KwCertificate}) THEN "SslError"
    ELSE "Generic"

\* The kind of a finished attempt: Success is a tool run that left a file
\* to serve, Unexpected any failure that is neither a timeout nor a
\* non-zero exit of the tool.
AttemptKind(kind, text, found) ==
    IF kind = "ok" THEN (IF found THEN "Success" ELSE "Unexpected")
    ELSE IF kind = "oserror" THEN "Unexpected"
    ELSE classify(text, kind = "timeout")

\* The handler of r runs a segment that ends in loc; entering subprocess.run
\* takes the event loop until the tool ends.
Apply(r, loc) ==
    /\ pc' = [pc EXCEPT ![r] = loc.pc]
    /\ attempt' = [attempt EXCEPT ![r] = loc.attempt]
    /\ wake' = [wake EXCEPT ![r] = loc.wake]
    /\ pauses' = [pauses EXCEPT ![r] = loc.pauses]
    /\ response' = [response EXCEPT ![r] = loc.response]
    /\ file_path' = [file_path EXCEPT ![r] = loc.file_path]
    /\ running' = IF loc.pc = "invoke" THEN {r} ELSE {}
    /\ invocations' = [invocations EXCEPT ![r] = IF loc.pc = "invoke" THEN @ + 1 ELSE @]

\* variant: the whole interval slept, whatever time has passed
SleepTime_Whole(time_since_last) == MIN_REQUEST_INTERVAL

\* variant: a sleep one second short
SleepTime_Short(time_since_last) == MIN_REQUEST_INTERVAL - time_since_last - 1

\* sleep_time = MIN_REQUEST_INTERVAL - time_since_last   (line 124)
SleepTime(time_since_last) == MIN_REQUEST_INTERVAL - time_since_last

\* variant: the first iteration without the write of line 127
PacerExit_NoWrite(r, u) ==
    /\ UNCHANGED last_request_time
    /\ cmd' = [cmd EXCEPT ![r] = get_yt_dlp_command(u, 1)]
    /\ \E loc \in IterationStart(1, now, <<>>) : Apply(r, loc)

\* last_request_time = time.time()   (line 127), then the first iteration
PacerExit(r, u) ==
    /\ last_request_time' = now
    /\ cmd' = [cmd EXCEPT ![r] = get_yt_dlp_command(u, 1)]
    /\ \E loc \in IterationStart(1, now, <<>>) : Apply(r, loc)

\* POST /download arrives: lines 121-125, and on without a sleep when the
\* interval has passed.  Requests are numbered in the order they arrive.
download_enter(r, u) ==
    /\ pc[r] = "idle"
    /\ \A q \in Requests : q < r => pc[q] # "idle"
    /\ running = {}
    /\ video_url' = [video_url EXCEPT ![r] = u]
    /\ seen_last' = [seen_last EXCEPT ![r] = last_request_time]
    /\ LET current_time == now
           time_since_last == current_time - last_request_time
       IN  IF time_since_last < MIN_REQUEST_INTERVAL
           THEN /\ Apply(r, Local("pacer_sleep", 0, now + SleepTime(time_since_last),
                                  <<>>, NoResponse, NoText))
                /\ UNCHANGED <<last_request_time, cmd>>
           ELSE PacerExit(r, u)
    /\ UNCHANGED <<now, files, cleanup, failures, hist, error_msg, attempt_end>>

\* await asyncio.sleep(sleep_time) of line 125 is over
pacer_wake(r) ==
    /\ pc[r] = "pacer_sleep"
    /\ running = {}
    /\ now >= wake[r]
    /\ PacerExit(r, video_url[r])
    /\ UNCHANGED <<now, video_url, files, cleanup, failures, hist, error_msg, seen_last,
                   attempt_end>>

\* subprocess.run ends as res says, having written wrote and taken elapsed
\* seconds; the handler goes on through the try statement to its next
\* await, its return or its raise.  Of all the attempts of a run at most
\* budget fail.
tool_returns(r, res, suffixes, times, budget) ==
    /\ pc[r] = "invoke"
    /\ running = {r}
    /\ \E text \in {IF res.kind = "error"
                     THEN ErrorMsg(res.text, cmd[r])
                     ELSE res.text} :
       \* what the try statement does and what the attempt counts as, with
       \* and without a file for glob to find
       \E step_found \in {TryStep(res.kind, text, TRUE, attempt[r])},
          step_none \in {TryStep(res.kind, text, FALSE, attempt[r])},
          kind_found \in {AttemptKind(res.kind, text, TRUE)},
          kind_none \in {AttemptKind(res.kind, text, FALSE)} :
       \E wrote \in ToolWrites(res.kind, suffixes), elapsed \in ToolTimes(res.kind, times) :
         LET downloaded_files == files[r] \cup wrote
             found == downloaded_files # {}
             step == IF found THEN step_found ELSE step_none
             ended == IF found THEN kind_found ELSE kind_none
         IN  /\ ended # "Success" => failures < budget
             /\ failures' = IF ended = "Success" THEN failures ELSE failures + 1
             /\ now' = now + elapsed
             /\ files' = [files EXCEPT ![r] = downloaded_files]
             /\ hist' = [hist EXCEPT ![r] = Append(@, ended)]
             /\ error_msg' = [error_msg EXCEPT ![r] = text]
             /\ \E loc \in AfterTry(step, attempt[r], now + elapsed, downloaded_files) :
                  /\ Apply(r, loc)
                  /\ attempt_end' = [attempt_end EXCEPT ![r] =
                                        IF loc.pc \in {"backoff_sleep", "delay_sleep"}
                                        THEN now + elapsed ELSE 0]
    /\ UNCHANGED <<last_request_time, video_url, cleanup, seen_last, cmd>>

\* the sleep of line 218 or 239 is over: continue
backoff_wake(r) ==
    /\ pc[r] = "backoff_sleep"
    /\ running = {}
    /\ now >= wake[r]
    /\ \E loc \in LoopNext(attempt[r], now, pauses[r]) : Apply(r, loc)
    /\ UNCHANGED <<now, last_request_time, video_url, files, cleanup, failures, hist,
                   error_msg, seen_last, cmd, attempt_end>>

\* the sleep of line 145 is over: build the command and run the tool
delay_wake(r) ==
    /\ pc[r] = "delay_sleep"
    /\ running = {}
    /\ now >= wake[r]
    /\ cmd' = [cmd EXCEPT ![r] = get_yt_dlp_command(video_url[r], attempt[r])]
    /\ Apply(r, Local("invoke", attempt[r], 0, pauses[r], NoResponse, NoText))
    /\ UNCHANGED <<now, last_request_time, video_url, files, cleanup, failures, hist,
                   error_msg, seen_last, attempt_end>>

\* The framework sends the FileResponse and then calls its background,
\* which creates the cleanup_file task (line 192).  The background is the
\* response's: when sending fails (the file cannot be read, the caller is
\* gone) the response ends there and its background is not called.
send_response(r, sent) ==
    /\ pc[r] = "responding"
    /\ running = {}
    /\ pc' = [pc EXCEPT ![r] = IF sent THEN "cleanup" ELSE "done"]
    /\ UNCHANGED <<now, last_request_time, running, video_url, attempt, wake, files,
                   file_path, response, cleanup, invocations, failures, hist, error_msg,
                   pauses, seen_last, cmd, attempt_end>>

\* variant: cleanup_file without its try statement
CleanupResult_Raises(exists, remove_ok) ==
    IF exists
    THEN (IF remove_ok THEN "removed" ELSE "raised")
    ELSE "absent"

\* How cleanup_file ends: "removed", "absent" (nothing to remove), "logged"
\* (os.remove raised and the except clause logged it) or "raised".
CleanupResult(exists, remove_ok) ==
    IF exists
    THEN (IF remove_ok THEN "removed" ELSE "logged")
    ELSE "absent"

\* the background task: cleanup_file(file_path)   (lines 41-48)
cleanup_file(r, remove_ok) ==
    /\ pc[r] = "cleanup"
    /\ running = {}
    /\ LET res == CleanupResult(file_path[r] \in files[r], remove_ok)
       IN  /\ cleanup' = [cleanup EXCEPT ![r] = res]
           /\ files' = [files EXCEPT ![r] =
                          IF res = "removed" THEN @ \ {file_path[r]} ELSE @]
    /\ pc' = [pc EXCEPT ![r] = "done"]
    /\ UNCHANGED <<now, last_request_time, running, video_url, attempt, wake,
                   file_path, response, invocations, failures, hist, error_msg, pauses, seen_last, cmd, attempt_end>>

\* Something else removes the served file before cleanup_file looks for it.
file_vanishes(r) ==
    /\ pc[r] = "cleanup"
    /\ file_path[r] \in files[r]
    /\ files' = [files EXCEPT ![r] = @ \ {file_path[r]}]
    /\ UNCHANGED <<now, last_request_time, running, pc, video_url, attempt, wake,
                   file_path, response, cleanup, invocations, failures, hist, error_msg,
                   pauses, seen_last, cmd, attempt_end>>

\* GET /health   (lines 111-114)
health_check ==
    /\ running = {}
    /\ UNCHANGED vars

Sleeping(r) == pc[r] \in {"pacer_sleep", "backoff_sleep", "delay_sleep"}

\* Time passes until a sleep is due (time also passes while the tool runs).
time_passes(r) ==
    /\ running = {}
    /\ Sleeping(r)
    /\ wake[r] > now
    /\ now' = wake[r]
    /\ UNCHANGED <<last_request_time, running, pc, video_url, attempt, wake, files,
                   file_path, response, cleanup, invocations, failures, hist, error_msg,
                   pauses, seen_last, cmd, attempt_end>>

\* The steps of the service against clients that ask for env.urls, a tool
\* that ends as env.results say after one of env.times and leaves files
\* with env.suffixes, failing at most env.failures times, responses that
\* get sent as env.deliveries say, and an os.remove that succeeds as
\* env.removals say.
Environment(urls, results, suffixes, times, fail, deliveries, removals) ==
    [urls |-> urls, results |-> results, suffixes |-> suffixes, times |-> times,
     failures |-> fail, deliveries |-> deliveries, removals |-> removals]

Step(env) ==
    \/ \E r \in Requests, u \in env.urls : download_enter(r, u)
    \/ \E r \in Requests : pacer_wake(r)
    \/ \E r \in Requests, res \in env.results :
         tool_returns(r, res, env.suffixes, env.times, env.failures)
    \/ \E r \in Requests : backoff_wake(r)
    \/ \E r \in Requests : delay_wake(r)
    \/ \E r \in Requests, sent \in env.deliveries : send_response(r, sent)
    \/ \E r \in Requests, remove_ok \in env.removals : cleanup_file(r, remove_ok)
    \/ \E r \in Requests : time_passes(r)
    \/ health_check

\* One client request, to a service that has just started or that let an
\* earlier request through a second ago; every way the tool, the sending
\* of the response and the file system may act, the tool answering at once
\* or running into its timeout.
Init == InitWith({1}, {0, StartTime - 1})

Next ==
    \/ Step(Environment(Urls, ToolResults, Suffixes, {0}, max_attempts, BOOLEAN, BOOLEAN))
    \/ \E r \in Requests : file_vanishes(r)

Spec == Init /\ [][Next]_vars

\* Concurrent client requests, against a tool that succeeds, lacks its
\* conversion tool or fails otherwise; one attempt of the run fails,
\* responses get sent and os.remove succeeds.
PacerResults ==
    {ToolResult("ok", NoText), ToolResult("error", ErrFfmpeg),
     ToolResult("error", ErrUnavailable)}

InitPacer == InitWith(Requests, {0})

NextPacer ==
    Step(Environment({UrlPlain}, PacerResults, {ExtM4aUpper}, {0, MaxToolTime}, 1,
                     {TRUE}, {TRUE}))

SpecPacer == InitPacer /\ [][NextPacer]_vars

\* One client request, against a tool that leaves files of every kind of
\* the media type table, in either case, and of none; it succeeds, times
\* out or fails otherwise; responses get sent and os.remove succeeds.
MediaSuffixes == {DotM4a, ExtM4aUpper, DotWebm, DotOpus, DotMp3, DotWav, ExtPart}

MediaResults ==
    {ToolResult("ok", NoText), ToolResult("timeout", NoText),
     ToolResult("error", ErrUnavailable)}

InitMedia == InitWith({1}, {0, StartTime - 1})

NextMedia ==
    Step(Environment({UrlPlain}, MediaResults, MediaSuffixes, {0}, max_attempts,
                     {TRUE}, {TRUE}))

SpecMedia == InitMedia /\ [][NextMedia]_vars

\* Two concurrent client requests against a tool that answers at once, with
\* success or a failure of no special kind, on any attempt.  Every tool run
\* ends, the clock reaches the next due sleep, the event loop resumes a
\* handler whose sleep is over, and the framework sends each response and
\* runs its background.
LiveRequests == {1, 2}

LiveResults == {ToolResult("ok", NoText), ToolResult("error", ErrUnavailable)}

InitLive == InitWith(LiveRequests, {0})

NextLive ==
    Step(Environment({UrlPlain}, LiveResults, {ExtM4aUpper}, {0},
                     max_attempts, {TRUE}, {TRUE}))

\* A tool run that may end does not go on for ever (the ending named is one
\* that is possible whenever the tool runs: fairness on it says that the
\* run ends, not how).
Fairness ==
    \A r \in LiveRequests :
        /\ WF_vars(pacer_wake(r))
        /\ WF_vars(tool_returns(r, ToolResult("ok", NoText), {ExtM4aUpper}, {0},
                                max_attempts))
        /\ WF_vars(backoff_wake(r))
        /\ WF_vars(delay_wake(r))
        /\ WF_vars(send_response(r, TRUE))
        /\ WF_vars(cleanup_file(r, TRUE))
        /\ WF_vars(time_passes(r))

SpecLive == InitLive /\ [][NextLive]_vars /\ Fairness

----------------------------------------------------------------------------
(* Properties.                                                             *)

Last(h) == h[Len(h)]

\* The handler has produced its result for the request.
Terminal(r) == pc[r] \in {"responding", "cleanup", "done"}

\* The request has made attempts and the latest one has ended.
Attempted(r) == hist[r] # <<>>

\* C1: a single request never invokes the download tool more than 3 times.
C1_AtMostThreeInvocations ==
    \A r \in Requests : invocations[r] <= 3

\* A request that failed three times has run the tool three times.
C1_Witness ==
    \E r \in Requests :
        /\ invocations[r] = 3
        /\ Len(hist[r]) = 3
        /\ response[r].kind = "error"

\* The request, still at the pacer in this state, is past it in the next.
LeavesPacer(r) ==
    /\ pc[r] \in {"idle", "pacer_sleep"}
    /\ pc'[r] = "invoke"

\* C2: whenever a request leaves the pacer, the request that left it last
\* did so at least 5 seconds earlier, so the instants at which any two
\* requests leave the pacer are at least 5 seconds apart.
C2_StartsFiveSecondsApart ==
    [][\A r \in Requests :
          LeavesPacer(r) => now - last_request_time >= 5]_vars

\* C3: once a request's processing is over, no file downloads/<file_id>.*
\* of the request is left on disk.
C3_NoFileLeft ==
    \A r \in Requests : pc[r] = "done" => files[r] = {}

\* The status the last attempt's failure kind calls for.
StatusOfKind(kind) ==
    IF kind = "Timeout" THEN 408
    ELSE IF kind = "BotDetection" THEN 429
    ELSE 500

\* C4: the status of a request that ends in an error is 408, 429 or 500,
\* and is the one the failure kind of its last attempt calls for, whatever
\* the earlier attempts met.
C4_StatusFromLastAttempt ==
    \A r \in Requests :
        response[r].kind = "error"
            => /\ Attempted(r)
               /\ Last(hist[r]) # "Success"
               /\ response[r].status = StatusOfKind(Last(hist[r]))
               /\ response[r].status \in {408, 429, 500}

\* A request answered 429 after attempts that failed in other ways.
C4_Witness ==
    \E r \in Requests :
        /\ response[r].kind = "error"
        /\ response[r].status = 429
        /\ hist[r] = <<"Timeout", "SslError", "BotDetection">>

\* C5: a failed attempt whose diagnostic names ffmpeg or ffprobe, in
\* whatever case, ends the request with 500 at once: no sleep follows and
\* the tool is not invoked again.
C5_ConversionToolNotRetried ==
    \A r \in Requests :
        Attempted(r) /\ Last(hist[r]) = "ConversionToolMissing"
            => /\ pc[r] = "done"
               /\ response[r] = ErrorResponse(500, FfmpegDetail)
               /\ invocations[r] = Len(hist[r])
               /\ pauses[r] = <<>>

\* The second attempt met "FFprobe missing".
C5_Witness ==
    \E r \in Requests :
        /\ Len(hist[r]) = 2
        /\ Last(hist[r]) = "ConversionToolMissing"
        /\ error_msg[r] = ErrFfprobe
        /\ pc[r] = "done"

\* Index of the first attempt that succeeded or lacked the conversion tool,
\* or 3 when there is none.
StopIndex(h) ==
    LET stops == {i \in 1..Len(h) : h[i] \in {"Success", "ConversionToolMissing"}}
    IN  IF stops = {} THEN 3
        ELSE CHOOSE i \in stops : \A j \in stops : i <= j

RetryableKinds == {"Timeout", "BotDetection", "SslError", "Generic"}

\* C6: a request that has its result has run the tool as many times as the
\* index of its first attempt that succeeded or lacked the conversion
\* tool, or 3 times; a timeout, bot-detection, SSL or generic failure
\* before the third attempt leads to the next attempt; a success is
\* answered 200 with the file.
C6_RetryUntilStop ==
    \A r \in Requests :
        /\ Terminal(r) => invocations[r] = StopIndex(hist[r])
        /\ Attempted(r) /\ Last(hist[r]) \in RetryableKinds /\ Len(hist[r]) < 3
              => /\ pc[r] \in {"backoff_sleep", "delay_sleep", "invoke"}
                 /\ pc[r] # "backoff_sleep" => attempt[r] = Len(hist[r]) + 1
                 /\ pc[r] = "invoke" => invocations[r] = Len(hist[r]) + 1
        /\ Attempted(r) /\ Last(hist[r]) = "Success"
              => /\ Terminal(r)
                 /\ response[r].kind = "file"
                 /\ response[r].status = 200

\* A request that timed out twice runs the tool a third time and succeeds.
C6_Witness ==
    \E r \in Requests :
        /\ hist[r] = <<"Timeout", "Timeout", "Success">>
        /\ invocations[r] = 3
        /\ response[r].kind = "file"

ClassifierKinds ==
    {"Timeout", "ConversionToolMissing", "BotDetection", "SslError", "Generic"}

\* The backoff range of a failure kind, <<>> for a kind without backoff.
BackoffOfKind(kind) ==
    IF kind = "BotDetection" THEN <<<<10, 20>>>>
    ELSE IF kind = "Generic" THEN <<<<2, 5>>>>
    ELSE <<>>

\* The detail of the error a failure kind ends the request with.
DetailOfKind(kind, text) ==
    IF kind = "Timeout" THEN TimeoutDetail
    ELSE IF kind = "ConversionToolMissing" THEN FfmpegDetail
    ELSE IF kind = "BotDetection" THEN BotDetail
    ELSE IF kind = "SslError" THEN SslDetail
    ELSE GenericDetail(text)

\* C7: the handler treats a failed attempt as the first matching rule of
\* timeout, ffmpeg/ffprobe, bot keywords, SSL keywords, generic says: the
\* kind's error ends the request, or the kind's backoff precedes the retry.
C7_HandledAsClassified ==
    \A r \in Requests :
        Attempted(r) /\ Last(hist[r]) \in ClassifierKinds
            => LET kind == Last(hist[r]) IN
               IF kind = "ConversionToolMissing" \/ Len(hist[r]) = 3
               THEN /\ pc[r] = "done"
                    /\ response[r] =
                         ErrorResponse(StatusOfKind(kind), DetailOfKind(kind, error_msg[r]))
               ELSE /\ response[r] = NoResponse
                    /\ pc[r] \in {"backoff_sleep", "delay_sleep", "invoke"}
                    /\ pauses[r] = IF pc[r] = "backoff_sleep"
                                   THEN BackoffOfKind(kind)
                                   ELSE BackoffOfKind(kind) \o <<<<3, 8>>>>

\* A diagnostic with a bot keyword and an SSL keyword is backed off from as
\* bot detection.
C7_Witness ==
    \E r \in Requests :
        /\ Attempted(r)
        /\ error_msg[r] = ErrBotSsl
        /\ Last(hist[r]) = "BotDetection"
        /\ pc[r] = "backoff_sleep"
        /\ pauses[r] = <<<<10, 20>>>>

\* C8: a handler that is over has answered 200 with the file or with an
\* HTTP error that carries a detail; a failure on the third attempt is
\* answered with an error, and the handler never runs off the end of the
\* loop.
C8_AlwaysAnAnswer ==
    \A r \in Requests :
        /\ response[r].kind # "none"
        /\ Terminal(r)
              => \/ response[r].kind = "file" /\ response[r].status = 200
                 \/ /\ response[r].kind = "error"
                    /\ response[r].status \in {408, 429, 500}
                    /\ response[r].detail # NoText
        /\ ~Terminal(r) => response[r] = NoResponse
        /\ Len(hist[r]) = 3 /\ Last(hist[r]) # "Success"
              => pc[r] = "done" /\ response[r].kind = "error"

\* The third attempt exits with status 0 and leaves no file.
C8_Witness ==
    \E r \in Requests :
        /\ hist[r] = <<"Unexpected", "Unexpected", "Unexpected">>
        /\ error_msg[r] = NoText
        /\ response[r] = ErrorResponse(500, UnexpectedPrefix \o StrNotFound)

\* C9: a request is past the pacer no earlier than 5 seconds after the
\* value of last_request_time it read on entry, the start of the request
\* before it when that one is past the pacer already.
C9_SequentialPacing ==
    \A r \in Requests :
        pc[r] = "invoke" /\ attempt[r] = 1
            => /\ last_request_time = now
               /\ now - seen_last[r] >= 5

\* A request that arrived within 5 seconds of the start of the one before
\* has slept and is past the pacer.
C9_Witness ==
    \E r \in Requests :
        /\ pc[r] = "invoke"
        /\ attempt[r] = 1
        /\ seen_last[r] >= StartTime
        /\ now = seen_last[r] + 5

\* C10: cleanup_file never raises, whether the file is missing or
\* os.remove fails, and leaves the 200 answer of the request as it was.
C10_CleanupNeverRaises ==
    \A r \in Requests :
        /\ cleanup[r] \in {"none", "removed", "absent", "logged"}
        /\ cleanup[r] # "none"
              => /\ pc[r] = "done"
                 /\ response[r] = FileResponse(file_path[r])
                 /\ response[r].status = 200

\* os.remove failed: the failure is logged and the file is still there.
C10_Witness ==
    \E r \in Requests :
        /\ cleanup[r] = "logged"
        /\ file_path[r] \in files[r]
        /\ response[r].status = 200

\* The media type the extension table gives each file the tool may leave.
MediaTypeOfFile(name) ==
    IF name \in {DotM4a, ExtM4aUpper} THEN AudioMp4
    ELSE IF name = DotWebm THEN AudioWebm
    ELSE IF name = DotOpus THEN AudioOpus
    ELSE IF name = DotMp3 THEN AudioMpeg
    ELSE IF name = DotWav THEN AudioWav
    ELSE AudioMpeg

\* C11: the media type of a 200 answer is the one the table gives the
\* lower-cased extension of the served file, audio/mpeg for an extension
\* not in the table, whatever the attempt and the failures before it.
C11_MediaTypeFromExtension ==
    \A r \in Requests :
        response[r].kind = "file"
            => /\ file_path[r] \in MediaSuffixes
               /\ response[r].media_type = MediaTypeOfFile(file_path[r])

\* The third attempt, after two failures, serves a file named .M4A.
C11_Witness ==
    \E r \in Requests :
        /\ response[r].kind = "file"
        /\ file_path[r] = ExtM4aUpper
        /\ response[r].media_type = AudioMp4
        /\ hist[r] = <<"Timeout", "Generic", "Success">>

\* C12: while a request is inside its tool invocation, GET /health can be
\* served, and the handler of another request whose pacer wait or backoff
\* sleep is over can go on.
C12_InvocationYields ==
    \A r \in Requests :
        running = {r}
            => /\ ENABLED health_check
               /\ \A q \in Requests \ {r} :
                    /\ pc[q] = "pacer_sleep" /\ now >= wake[q] => ENABLED pacer_wake(q)
                    /\ pc[q] = "backoff_sleep" /\ now >= wake[q] => ENABLED backoff_wake(q)

\* C13: once a 200 answer with a file has been handed to the framework and
\* the request is over, the served file is gone from disk, whether or not
\* the response could be sent.
C13_ServedFileDeleted ==
    \A r \in Requests :
        pc[r] = "done" /\ response[r].kind = "file" => file_path[r] \notin files[r]

\* C14: a retry starts after one sleep only, of the range of the failure
\* before it: between a bot-detection failure and the next tool run 10 to
\* 20 seconds pass, between a generic failure and the next tool run 2 to 5
\* seconds; nothing of the retry loop sleeps before attempt 1.
C14_BackoffByKind ==
    \A r \in Requests :
        pc[r] = "invoke"
            => LET slept == now - attempt_end[r] IN
               /\ attempt[r] = 1 => pauses[r] = <<>>
               /\ attempt[r] > 1 /\ Last(hist[r]) = "BotDetection"
                     => Len(pauses[r]) = 1 /\ 10 <= slept /\ slept <= 20
               /\ attempt[r] > 1 /\ Last(hist[r]) = "Generic"
                     => Len(pauses[r]) = 1 /\ 2 <= slept /\ slept <= 5

\* C15: the detail of an error that ends a request after a last attempt of
\* another kind than Generic holds nothing of the diagnostic or exception
\* text of the attempt: it is the fixed text of the kind.
C15_NoRawTextButGeneric ==
    \A r \in Requests :
        response[r].kind = "error" /\ Last(hist[r]) # "Generic"
            => /\ Last(hist[r]) \in ClassifierKinds
                     => response[r].detail = DetailOfKind(Last(hist[r]), NoText)
               /\ Last(hist[r]) = "Unexpected" /\ error_msg[r] # NoText
                     => ~Contains(response[r].detail, error_msg[r])

\* C16: from some time on every request that has arrived has its answer,
\* a 200 answer or an HTTP error: no handler retries or waits for ever,
\* however the handlers of other requests interleave with it.
C16_EveryRequestEnds ==
    <>[](\A r \in LiveRequests :
            \/ pc[r] = "idle"
            \/ Terminal(r) /\ response[r].kind \in {"file", "error"})

\* A request that waited in the pacer and failed three times is over.
C16_Witness ==
    \E r \in Requests :
        /\ pc[r] = "done"
        /\ seen_last[r] >= StartTime
        /\ Len(hist[r]) = 3
        /\ response[r].kind = "error"

\* The user agent of attempt n: entry n mod 4 of the rotation, counted
\* from 0.
UserAgentOfAttempt(n) ==
    IF n = 1 THEN UA1 ELSE IF n = 2 THEN UA2 ELSE IF n = 3 THEN UA3 ELSE UA0

\* The player client of attempt n.
PlayerClientOfAttempt(n) ==
    IF n = 1 THEN ClientAndroid ELSE IF n = 2 THEN ClientWeb ELSE ClientWebSkip

\* The argument of the command that follows the option.
ArgumentAfter(command, option) ==
    LET at == {i \in 1..(Len(command) - 1) : command[i] = option}
    IN  {command[i + 1] : i \in at}

\* C17: the command of attempt n carries the user agent and the player
\* client of n alone, whatever the attempts before it met, and ends with
\* the URL of the request.
C17_VariantFromAttempt ==
    \A r \in Requests :
        pc[r] = "invoke"
            => /\ attempt[r] = Len(hist[r]) + 1
               /\ ArgumentAfter(cmd[r], ArgUserAgent) = {UserAgentOfAttempt(attempt[r])}
               /\ ArgumentAfter(cmd[r], ArgExtractorArgs)
                     = {PlayerClientOfAttempt(attempt[r])}
               /\ Last(cmd[r]) = video_url[r]

\* The third attempt, after a timeout and a bot-detection failure, runs
\* with the fourth user agent and the web client that skips the webpage.
C17_Witness ==
    \E r \in Requests :
        /\ pc[r] = "invoke"
        /\ hist[r] = <<"Timeout", "BotDetection">>
        /\ ArgumentAfter(cmd[r], ArgUserAgent) = {UA3}
        /\ ArgumentAfter(cmd[r], ArgExtractorArgs) = {ClientWebSkip}

\* The last tool run of the request exited with status 0 and glob found no
\* file.
ExitedWithoutFile(r) ==
    /\ Attempted(r)
    /\ Last(hist[r]) = "Unexpected"
    /\ error_msg[r] = NoText

\* C18: a 200 answer is returned only by an attempt that found a file, and
\* the file it serves is on disk when the handler returns; a tool run that
\* exits with status 0 and leaves no file is a failed attempt, retried
\* before the third attempt and answered 500 on the third.
C18_FileOrRetry ==
    \A r \in Requests :
        /\ pc[r] = "responding" => file_path[r] \in files[r]
        /\ response[r].kind = "file" => Attempted(r) /\ Last(hist[r]) = "Success"
        /\ ExitedWithoutFile(r)
              => /\ files[r] = {}
                 /\ IF Len(hist[r]) < 3
                    THEN /\ pc[r] \in {"delay_sleep", "invoke"}
                         /\ attempt[r] = Len(hist[r]) + 1
                         /\ response[r] = NoResponse
                    ELSE /\ pc[r] = "done"
                         /\ response[r] = ErrorResponse(500, UnexpectedPrefix \o StrNotFound)

\* A first run that exits 0 without a file is followed by a second that
\* leaves one, which is served.
C18_Witness ==
    \E r \in Requests :
        /\ hist[r] = <<"Unexpected", "Success">>
        /\ pc[r] = "responding"
        /\ file_path[r] \in files[r]
        /\ response[r].status = 200

C20_WrittenAtPacerExitOnly ==
    [][/\ \A r \in Requests :
            LeavesPacer(r)
                => /\ last_request_time' = now
                   /\ invocations[r] = 0
                   /\ invocations'[r] = 1
       /\ last_request_time' # last_request_time
            => \E r \in Requests : LeavesPacer(r)]_vars

\* A request that left the pacer, failed three times with sleeps in between
\* and is over: last_request_time is still the time it left the pacer.
C20_Witness ==
    \E r \in Requests :
        /\ pc[r] = "done"
        /\ Len(hist[r]) = 3
        /\ last_request_time >= StartTime
        /\ last_request_time >= seen_last[r] + 5
        /\ now > last_request_time

====
